---- MODULE Spec2Model ----
(***************************************************************************)
(* Model of examples/async_compute/async_compute.cpp: a render thread and  *)
(* a compute worker thread hand a fixed pool of textures to each other     *)
(* through two mutex-protected FIFO queues, and order the GPU work of the  *)
(* graphics and compute queues with queue-to-queue waits keyed by the      *)
(* sequence numbers that executeCommandList returns.                       *)
(***************************************************************************)
EXTENDS Integers, Sequences, FiniteSets

\* ------------------------------------------------------------- constants

\* constexpr size_t NumTextures = 2;
NumTextures == 2

\* Bounds of the model: frames the message loop renders, worker iterations
\* that are started, and operations of the stand-alone queue specification.
MaxFrames == 4
MaxIters == 4
MaxQueueOps == 5
MaxSeqNo == 2

\* A null nvrhi::TextureHandle.
Null == 0

Textures == 1..NumTextures

Max(a, b) == IF a >= b THEN a ELSE b

\* ---------------------------------------------------------------- state

VARIABLES
    mpc,                    \* position of the main (render) thread
    wpc,                    \* position of the worker thread
    m_Terminate,            \* std::atomic_bool m_Terminate
    m_RenderToComputeQueue, \* TextureQueue: sequence of (texture, lastUse)
    m_ComputeToRenderQueue, \* TextureQueue
    m_CurrentRenderTexture, \* nvrhi::TextureHandle
    m_LastRenderTextureUse, \* uint64_t
    newTexture,             \* Render's local handle
    newTextureLastUse,      \* Render's local
    popped,                 \* result of Render's TryPop in the current frame
    texture,                \* AsyncThreadProc's local handle
    textureLastUse,         \* AsyncThreadProc's local
    created,                \* textures created so far by Init
    drawCL,                 \* texture bound in m_DrawCommandList while open
    computeCL,              \* texture bound in m_ComputeCommandList while open
    gfxPendingWait,         \* waits enqueued on the graphics queue, not yet submitted
    cmpPendingWait,         \* waits enqueued on the compute queue, not yet submitted
    gfxSubmitted,           \* last sequence number of the graphics queue
    cmpSubmitted,           \* last sequence number of the compute queue
    gfxInflight,            \* graphics submissions the GPU has not finished
    cmpInflight,            \* compute submissions the GPU has not finished
    gfxRunning,             \* the head of gfxInflight is executing
    cmpRunning,             \* the head of cmpInflight is executing
    released,               \* textures whose handle was destroyed
    releasedEarly,          \* textures whose handle was destroyed before join returned
    releasedBusy,           \* textures released while GPU work that uses them was in flight
    lastSample,             \* per texture: last graphics submission that sampled it
    lastWrite,              \* per texture: last compute submission that wrote it
    qQueue, qPushed, qPopped, qOut, qLast, qPrev, qOps, \* stand-alone queue
    r2cLock,                \* holder of m_RenderToComputeQueue.m_Mutex
    c2rLock,                \* holder of m_ComputeToRenderQueue.m_Mutex
    initResult,             \* what Init returned: "none" until it returns
    registered,             \* the render pass is in the device manager's list
    logged,                 \* log::fatal was called
    exitStatus,             \* how the process ended: "running" until it does
    received                \* Render has popped a texture at least once

cpuVars == <<mpc, wpc, m_Terminate, m_RenderToComputeQueue, m_ComputeToRenderQueue,
             m_CurrentRenderTexture, m_LastRenderTextureUse, newTexture,
             newTextureLastUse, popped, texture, textureLastUse, created,
             drawCL, computeCL>>
gpuVars == <<gfxPendingWait, cmpPendingWait, gfxSubmitted, cmpSubmitted,
             gfxInflight, cmpInflight, gfxRunning, cmpRunning>>
ghostVars == <<released, releasedEarly, releasedBusy, lastSample, lastWrite>>
qVars == <<qQueue, qPushed, qPopped, qOut, qLast, qPrev, qOps>>
lockVars == <<r2cLock, c2rLock>>
extVars == <<initResult, registered, logged, exitStatus, received>>
vars == <<cpuVars, gpuVars, ghostVars, qVars, lockVars, extVars>>

\* --------------------------------------------------------- TextureQueue

\* A plausible slip: the element is put at the front.
PushFront(queue, tex, lastUse) ==
    <<[texture |-> tex, lastUse |-> lastUse]>> \o queue

\* void Push(TextureHandle&& texture, uint64_t lastUse): emplace at the back.
Push(queue, tex, lastUse) ==
    Append(queue, [texture |-> tex, lastUse |-> lastUse])

\* bool TryPop(TextureHandle& outTexture, uint64_t& outLastUse).
\* Empty: returns false, nothing is touched. Otherwise the front's handle is
\* swapped with outTexture, the front's number is copied, and the front (now
\* holding what outTexture held) is destroyed by pop().
TryPop(queue, outTexture, outLastUse) ==
    IF queue = <<>>
    THEN [ok |-> FALSE, queue |-> queue, outTexture |-> outTexture,
          outLastUse |-> outLastUse, dropped |-> Null]
    ELSE [ok |-> TRUE, queue |-> Tail(queue), outTexture |-> Head(queue).texture,
          outLastUse |-> Head(queue).lastUse, dropped |-> outTexture]

\* Textures held by a queue.
QueueTextures(queue) == {queue[i].texture : i \in 1..Len(queue)}

\* ----------------------------------------------------------- GPU queues

\* Textures that submitted, unfinished GPU work references.
InflightTextures ==
    {gfxInflight[i].tex : i \in 1..Len(gfxInflight)}
        \cup {cmpInflight[i].tex : i \in 1..Len(cmpInflight)}

gfxDone == gfxSubmitted - Len(gfxInflight)
cmpDone == cmpSubmitted - Len(cmpInflight)

\* Destroying a set of handles: remembers which were destroyed before the join
\* returned and which were still used by unfinished GPU work.
Release(S, beforeJoin) ==
    /\ released' = released \cup (S \ {Null})
    /\ releasedEarly' = IF beforeJoin THEN releasedEarly \cup (S \ {Null})
                        ELSE releasedEarly
    /\ releasedBusy' = releasedBusy \cup ((S \ {Null}) \cap InflightTextures)

relVars == <<released, releasedEarly, releasedBusy>>

\* ------------------------------------------------------- initial state

\* The state when main() starts.
Init ==
    /\ mpc = "main"
    /\ wpc = "unspawned"
    /\ m_Terminate = FALSE
    /\ m_RenderToComputeQueue = <<>>
    /\ m_ComputeToRenderQueue = <<>>
    /\ m_CurrentRenderTexture = Null
    /\ m_LastRenderTextureUse = 0
    /\ newTexture = Null
    /\ newTextureLastUse = 0
    /\ popped = FALSE
    /\ texture = Null
    /\ textureLastUse = 0
    /\ created = 0
    /\ drawCL = Null
    /\ computeCL = Null
    /\ gfxPendingWait = 0
    /\ cmpPendingWait = 0
    /\ gfxSubmitted = 0
    /\ cmpSubmitted = 0
    /\ gfxInflight = <<>>
    /\ cmpInflight = <<>>
    /\ gfxRunning = FALSE
    /\ cmpRunning = FALSE
    /\ released = {}
    /\ releasedEarly = {}
    /\ releasedBusy = {}
    /\ lastSample = [t \in Textures |-> 0]
    /\ lastWrite = [t \in Textures |-> 0]
    /\ qQueue = <<>>
    /\ qPushed = <<>>
    /\ qPopped = <<>>
    /\ qOut = [texture |-> Null, lastUse |-> 0]
    /\ qLast = "none"
    /\ qPrev = [queue |-> <<>>, out |-> [texture |-> Null, lastUse |-> 0]]
    /\ qOps = 0
    /\ r2cLock = "none"
    /\ c2rLock = "none"
    /\ initResult = "none"
    /\ registered = FALSE
    /\ logged = FALSE
    /\ exitStatus = "running"
    /\ received = FALSE

\* ----------------------------------------------------------------- main

\* main, lines 316-320: the device cannot be created; log::fatal, return 1.
MainDeviceFail ==
    /\ mpc = "main"
    /\ logged' = TRUE
    /\ exitStatus' = "1"
    /\ mpc' = "exited"
    /\ UNCHANGED <<wpc, m_Terminate, m_RenderToComputeQueue, m_ComputeToRenderQueue,
                   m_CurrentRenderTexture, m_LastRenderTextureUse, newTexture,
                   newTextureLastUse, popped, texture, textureLastUse, created,
                   drawCL, computeCL, gpuVars, ghostVars, qVars, lockVars,
                   initResult, registered, received>>

\* main, lines 316-324: the device exists, `example` is constructed and Init
\* is called.
MainCreateDevice ==
    /\ mpc = "main"
    /\ mpc' = "start"
    /\ UNCHANGED <<wpc, m_Terminate, m_RenderToComputeQueue, m_ComputeToRenderQueue,
                   m_CurrentRenderTexture, m_LastRenderTextureUse, newTexture,
                   newTextureLastUse, popped, texture, textureLastUse, created,
                   drawCL, computeCL, gpuVars, ghostVars, qVars, lockVars, extVars>>

\* --------------------------------------------------- AsyncCompute::Init

\* Lines 118-125: a shader failed to load, Init returns false; main skips the
\* message loop and leaves the scope of `example`.
InitFail ==
    /\ mpc = "start"
    /\ initResult' = "false"
    /\ mpc' = "dtor"
    /\ UNCHANGED <<wpc, m_Terminate, m_RenderToComputeQueue, m_ComputeToRenderQueue,
                   m_CurrentRenderTexture, m_LastRenderTextureUse, newTexture,
                   newTextureLastUse, popped, texture, textureLastUse, created,
                   drawCL, computeCL, gpuVars, ghostVars, qVars, lockVars,
                   registered, logged, exitStatus, received>>

\* Lines 118-171: the shaders loaded; pipelines and command lists are created.
InitResources ==
    /\ mpc = "start"
    /\ mpc' = "seed"
    /\ UNCHANGED <<wpc, m_Terminate, m_RenderToComputeQueue, m_ComputeToRenderQueue,
                   m_CurrentRenderTexture, m_LastRenderTextureUse, newTexture,
                   newTextureLastUse, popped, texture, textureLastUse, created,
                   drawCL, computeCL, gpuVars, ghostVars, qVars, lockVars, extVars>>

\* The number a pool texture is seeded with.
SeedLastUse == 0

\* Lines 174-177: one pass of the loop that creates a texture and pushes it.
\* No other thread exists yet: the push takes and releases the free mutex.
InitPush ==
    /\ mpc = "seed"
    /\ created < NumTextures
    /\ r2cLock = "none"
    /\ created' = created + 1
    /\ m_RenderToComputeQueue' = Push(m_RenderToComputeQueue, created + 1, SeedLastUse)
    /\ UNCHANGED <<mpc, wpc, m_Terminate, m_ComputeToRenderQueue,
                   m_CurrentRenderTexture, m_LastRenderTextureUse, newTexture,
                   newTextureLastUse, popped, texture, textureLastUse,
                   drawCL, computeCL, gpuVars, ghostVars, qVars, lockVars, extVars>>

\* A plausible slip: the thread is started before the pool is seeded.
InitSpawnEarly ==
    /\ mpc = "seed"
    /\ wpc' = "top"
    /\ initResult' = "true"
    /\ mpc' = "inited"
    /\ UNCHANGED <<m_Terminate, m_RenderToComputeQueue, m_ComputeToRenderQueue,
                   m_CurrentRenderTexture, m_LastRenderTextureUse, newTexture,
                   newTextureLastUse, popped, texture, textureLastUse, created,
                   drawCL, computeCL, gpuVars, ghostVars, qVars, lockVars,
                   registered, logged, exitStatus, received>>

\* Lines 179-181: the worker thread is started and Init returns true.
InitSpawn ==
    /\ mpc = "seed"
    /\ created = NumTextures
    /\ wpc' = "top"
    /\ initResult' = "true"
    /\ mpc' = "inited"
    /\ UNCHANGED <<m_Terminate, m_RenderToComputeQueue, m_ComputeToRenderQueue,
                   m_CurrentRenderTexture, m_LastRenderTextureUse, newTexture,
                   newTextureLastUse, popped, texture, textureLastUse, created,
                   drawCL, computeCL, gpuVars, ghostVars, qVars, lockVars,
                   registered, logged, exitStatus, received>>

\* main, lines 324-327: Init returned true; the render pass is registered and
\* the message loop is entered.
MainAddPass ==
    /\ mpc = "inited"
    /\ registered' = TRUE
    /\ mpc' = "idle"
    /\ UNCHANGED <<wpc, m_Terminate, m_RenderToComputeQueue, m_ComputeToRenderQueue,
                   m_CurrentRenderTexture, m_LastRenderTextureUse, newTexture,
                   newTextureLastUse, popped, texture, textureLastUse, created,
                   drawCL, computeCL, gpuVars, ghostVars, qVars, lockVars,
                   initResult, logged, exitStatus, received>>

\* ------------------------------------------------- AsyncCompute::Render

\* Lines 194, 210, 55: the message loop calls Render for a frame; Render
\* calls TryPop on the compute->render queue, which takes the queue's mutex.
RenderBegin ==
    /\ mpc = "idle"
    /\ gfxSubmitted < MaxFrames
    /\ c2rLock = "none"
    /\ c2rLock' = "main"
    /\ mpc' = "pop"
    /\ UNCHANGED <<wpc, m_Terminate, m_RenderToComputeQueue, m_ComputeToRenderQueue,
                   m_CurrentRenderTexture, m_LastRenderTextureUse, newTexture,
                   newTextureLastUse, popped, texture, textureLastUse, created,
                   drawCL, computeCL, gpuVars, ghostVars, qVars, r2cLock, extVars>>

\* A plausible slip: a pop that waits until the queue has an element.
RenderBlockingPop ==
    /\ mpc = "pop"
    /\ m_ComputeToRenderQueue # <<>>
    /\ LET r == TryPop(m_ComputeToRenderQueue, newTexture, newTextureLastUse) IN
         /\ m_ComputeToRenderQueue' = r.queue
         /\ newTexture' = r.outTexture
         /\ newTextureLastUse' = r.outLastUse
         /\ popped' = r.ok
         /\ received' = (received \/ r.ok)
         /\ mpc' = IF r.ok THEN "swap" ELSE "open"
         /\ Release({r.dropped}, TRUE)
    /\ c2rLock' = "none"
    /\ UNCHANGED <<wpc, m_Terminate, m_RenderToComputeQueue,
                   m_CurrentRenderTexture, m_LastRenderTextureUse,
                   texture, textureLastUse, created, drawCL, computeCL,
                   gpuVars, lastSample, lastWrite, qVars, r2cLock,
                   initResult, registered, logged, exitStatus>>

\* A plausible slip: the result of TryPop is not tested and the swap is made
\* in every frame.
RenderTryPopUnchecked ==
    /\ mpc = "pop"
    /\ LET r == TryPop(m_ComputeToRenderQueue, newTexture, newTextureLastUse) IN
         /\ m_ComputeToRenderQueue' = r.queue
         /\ newTexture' = r.outTexture
         /\ newTextureLastUse' = r.outLastUse
         /\ popped' = TRUE
         /\ received' = (received \/ r.ok)
         /\ mpc' = "swap"
         /\ Release({r.dropped}, TRUE)
    /\ c2rLock' = "none"
    /\ UNCHANGED <<wpc, m_Terminate, m_RenderToComputeQueue,
                   m_CurrentRenderTexture, m_LastRenderTextureUse,
                   texture, textureLastUse, created, drawCL, computeCL,
                   gpuVars, lastSample, lastWrite, qVars, r2cLock,
                   initResult, registered, logged, exitStatus>>

\* Lines 208-210, 57-67: under the mutex, the frame's single TryPop on the
\* compute->render queue, which returns at once and releases the mutex. The
\* lazy creation of the graphics pipeline (lines 196-206) touches no state
\* modelled here.
RenderTryPop ==
    /\ mpc = "pop"
    /\ LET r == TryPop(m_ComputeToRenderQueue, newTexture, newTextureLastUse) IN
         /\ m_ComputeToRenderQueue' = r.queue
         /\ newTexture' = r.outTexture
         /\ newTextureLastUse' = r.outLastUse
         /\ popped' = r.ok
         /\ received' = (received \/ r.ok)
         /\ mpc' = IF r.ok THEN "swap" ELSE "open"
         /\ Release({r.dropped}, TRUE)
    /\ c2rLock' = "none"
    /\ UNCHANGED <<wpc, m_Terminate, m_RenderToComputeQueue,
                   m_CurrentRenderTexture, m_LastRenderTextureUse,
                   texture, textureLastUse, created, drawCL, computeCL,
                   gpuVars, lastSample, lastWrite, qVars, r2cLock,
                   initResult, registered, logged, exitStatus>>

\* A plausible slip: an assignment where the code swaps.
RenderSwapAssign ==
    /\ mpc = "swap"
    /\ m_CurrentRenderTexture' = newTexture
    /\ mpc' = "recycle"
    /\ UNCHANGED <<wpc, m_Terminate, m_RenderToComputeQueue, m_ComputeToRenderQueue,
                   m_LastRenderTextureUse, newTexture, newTextureLastUse, popped,
                   texture, textureLastUse, created, drawCL, computeCL,
                   gpuVars, ghostVars, qVars, lockVars, extVars>>

\* Line 212: m_CurrentRenderTexture.Swap(newTexture).
RenderSwap ==
    /\ mpc = "swap"
    /\ m_CurrentRenderTexture' = newTexture
    /\ newTexture' = m_CurrentRenderTexture
    /\ mpc' = "recycle"
    /\ UNCHANGED <<wpc, m_Terminate, m_RenderToComputeQueue, m_ComputeToRenderQueue,
                   m_LastRenderTextureUse, newTextureLastUse, popped,
                   texture, textureLastUse, created, drawCL, computeCL,
                   gpuVars, ghostVars, qVars, lockVars, extVars>>

\* A plausible slip: the recycled texture carries the number that came with
\* the new texture.
RecycleLastUseOfNew == newTextureLastUse

\* Line 215: the number the previous display texture is recycled with.
RecycleLastUse == m_LastRenderTextureUse

\* A plausible slip: a copy of the new display texture is pushed instead of
\* the previous one.
RenderRecycleCurrent ==
    /\ \/ mpc = "rpush"
       \/ mpc = "recycle" /\ newTexture = Null
    /\ IF newTexture # Null
       THEN /\ m_RenderToComputeQueue' =
                   Push(m_RenderToComputeQueue, m_CurrentRenderTexture, RecycleLastUse)
            /\ r2cLock' = "none"
            /\ UNCHANGED newTexture
       ELSE UNCHANGED <<m_RenderToComputeQueue, newTexture, r2cLock>>
    /\ mpc' = "gwait"
    /\ UNCHANGED <<wpc, m_Terminate, m_ComputeToRenderQueue,
                   m_CurrentRenderTexture, m_LastRenderTextureUse,
                   newTextureLastUse, popped, texture, textureLastUse, created,
                   drawCL, computeCL, gpuVars, ghostVars, qVars, c2rLock, extVars>>

\* Lines 213-215, 49: there was a previous display texture; Push is called and
\* takes the mutex of the render->compute queue.
RenderRecycleLock ==
    /\ mpc = "recycle"
    /\ newTexture # Null
    /\ r2cLock = "none"
    /\ r2cLock' = "main"
    /\ mpc' = "rpush"
    /\ UNCHANGED <<wpc, m_Terminate, m_RenderToComputeQueue, m_ComputeToRenderQueue,
                   m_CurrentRenderTexture, m_LastRenderTextureUse, newTexture,
                   newTextureLastUse, popped, texture, textureLastUse, created,
                   drawCL, computeCL, gpuVars, ghostVars, qVars, c2rLock, extVars>>

\* A plausible slip: the previous display texture is not pushed back; the
\* frame's local handle just ends.
RenderRecycleDrop ==
    /\ \/ mpc = "rpush"
       \/ mpc = "recycle" /\ newTexture = Null
    /\ IF newTexture # Null
       THEN /\ newTexture' = Null
            /\ r2cLock' = "none"
            /\ UNCHANGED m_RenderToComputeQueue
       ELSE UNCHANGED <<m_RenderToComputeQueue, newTexture, r2cLock>>
    /\ mpc' = "gwait"
    /\ UNCHANGED <<wpc, m_Terminate, m_ComputeToRenderQueue,
                   m_CurrentRenderTexture, m_LastRenderTextureUse,
                   newTextureLastUse, popped, texture, textureLastUse, created,
                   drawCL, computeCL, gpuVars, ghostVars, qVars, c2rLock, extVars>>

\* Lines 213-216, 50-51: the previous display texture, if there was one, is
\* moved into the render->compute queue under the mutex, which is released.
RenderRecycle ==
    /\ \/ mpc = "rpush"
       \/ mpc = "recycle" /\ newTexture = Null
    /\ IF newTexture # Null
       THEN /\ m_RenderToComputeQueue' =
                   Push(m_RenderToComputeQueue, newTexture, RecycleLastUse)
            /\ newTexture' = Null
            /\ r2cLock' = "none"
       ELSE UNCHANGED <<m_RenderToComputeQueue, newTexture, r2cLock>>
    /\ mpc' = "gwait"
    /\ UNCHANGED <<wpc, m_Terminate, m_ComputeToRenderQueue,
                   m_CurrentRenderTexture, m_LastRenderTextureUse,
                   newTextureLastUse, popped, texture, textureLastUse, created,
                   drawCL, computeCL, gpuVars, ghostVars, qVars, c2rLock, extVars>>

\* A plausible slip: the wait is left out.
GraphicsWaitNone == gfxPendingWait

\* Line 218: queueWaitForCommandList(Graphics, Compute, newTextureLastUse):
\* the next graphics submission waits for that compute submission.
GraphicsWait == Max(gfxPendingWait, newTextureLastUse)

RenderWait ==
    /\ mpc = "gwait"
    /\ gfxPendingWait' = GraphicsWait
    /\ mpc' = "open"
    /\ UNCHANGED <<wpc, m_Terminate, m_RenderToComputeQueue, m_ComputeToRenderQueue,
                   m_CurrentRenderTexture, m_LastRenderTextureUse, newTexture,
                   newTextureLastUse, popped, texture, textureLastUse, created,
                   drawCL, computeCL, cmpPendingWait, gfxSubmitted, cmpSubmitted,
                   gfxInflight, cmpInflight, gfxRunning, cmpRunning,
                   ghostVars, qVars, lockVars, extVars>>

\* A plausible slip: the test of line 225 looks at the frame's local handle,
\* which is null by now, and no draw is ever recorded.
RenderRecordNoDraw ==
    /\ mpc = "open"
    /\ drawCL' = newTexture
    /\ mpc' = "exec"
    /\ UNCHANGED <<wpc, m_Terminate, m_RenderToComputeQueue, m_ComputeToRenderQueue,
                   m_CurrentRenderTexture, m_LastRenderTextureUse, newTexture,
                   newTextureLastUse, popped, texture, textureLastUse, created,
                   computeCL, gpuVars, ghostVars, qVars, lockVars, extVars>>

\* Lines 221-243: the draw command list is opened, the target is cleared and,
\* when there is a display texture, a draw that samples it is recorded.
RenderRecord ==
    /\ mpc = "open"
    /\ drawCL' = m_CurrentRenderTexture
    /\ mpc' = "exec"
    /\ UNCHANGED <<wpc, m_Terminate, m_RenderToComputeQueue, m_ComputeToRenderQueue,
                   m_CurrentRenderTexture, m_LastRenderTextureUse, newTexture,
                   newTextureLastUse, popped, texture, textureLastUse, created,
                   computeCL, gpuVars, ghostVars, qVars, lockVars, extVars>>

\* A plausible slip: the number returned by the submission is dropped.
GraphicsLastUseKept(seq) == m_LastRenderTextureUse

\* Line 246: m_LastRenderTextureUse = executeCommandList(...).
GraphicsLastUse(seq) == seq

\* Lines 245-247: the command list is closed and submitted to the graphics
\* queue; the returned sequence number is kept; the frame's locals end.
RenderExecute ==
    /\ mpc = "exec"
    /\ LET seq == gfxSubmitted + 1 IN
         /\ gfxSubmitted' = seq
         /\ gfxInflight' = Append(gfxInflight,
                [seq |-> seq, tex |-> drawCL, wait |-> gfxPendingWait,
                 dep |-> IF drawCL = Null THEN 0 ELSE lastWrite[drawCL]])
         /\ m_LastRenderTextureUse' = GraphicsLastUse(seq)
         /\ lastSample' = IF drawCL = Null THEN lastSample
                          ELSE [lastSample EXCEPT ![drawCL] = seq]
    /\ gfxPendingWait' = 0
    /\ drawCL' = Null
    /\ Release({newTexture}, TRUE)
    /\ newTexture' = Null
    /\ popped' = FALSE
    /\ mpc' = "idle"
    /\ UNCHANGED <<wpc, m_Terminate, m_RenderToComputeQueue, m_ComputeToRenderQueue,
                   m_CurrentRenderTexture, newTextureLastUse,
                   texture, textureLastUse, created, computeCL,
                   cmpPendingWait, cmpSubmitted, cmpInflight, gfxRunning, cmpRunning,
                   lastWrite, qVars, lockVars, extVars>>

\* ---------------------------------------- AsyncCompute::AsyncThreadProc

\* Line 256: while (!m_Terminate). Lines 258-262: the iteration's locals.
WorkerTop ==
    /\ wpc = "top"
    /\ IF m_Terminate
       THEN wpc' = "done"
       ELSE /\ cmpSubmitted < MaxIters
            /\ wpc' = "poll"
    /\ texture' = Null
    /\ textureLastUse' = 0
    /\ UNCHANGED <<mpc, m_Terminate, m_RenderToComputeQueue, m_ComputeToRenderQueue,
                   m_CurrentRenderTexture, m_LastRenderTextureUse, newTexture,
                   newTextureLastUse, popped, created, drawCL, computeCL,
                   gpuVars, ghostVars, qVars, lockVars, extVars>>

\* A plausible slip: the busy-poll does not look at the termination flag.
WorkerPollNoFlag ==
    /\ wpc = "poll"
    /\ wpc' = "trypop"
    /\ UNCHANGED <<mpc, m_Terminate, m_RenderToComputeQueue, m_ComputeToRenderQueue,
                   m_CurrentRenderTexture, m_LastRenderTextureUse, newTexture,
                   newTextureLastUse, popped, texture, textureLastUse, created,
                   drawCL, computeCL, gpuVars, ghostVars, qVars, lockVars, extVars>>

\* Line 263, left operand: the busy-poll reads the termination flag.
WorkerPollFlag ==
    /\ wpc = "poll"
    /\ wpc' = IF m_Terminate THEN "check" ELSE "trypop"
    /\ UNCHANGED <<mpc, m_Terminate, m_RenderToComputeQueue, m_ComputeToRenderQueue,
                   m_CurrentRenderTexture, m_LastRenderTextureUse, newTexture,
                   newTextureLastUse, popped, texture, textureLastUse, created,
                   drawCL, computeCL, gpuVars, ghostVars, qVars, lockVars, extVars>>

\* Lines 263, 55: TryPop is called on the render->compute queue and takes
\* its mutex.
WorkerTryPopLock ==
    /\ wpc = "trypop"
    /\ r2cLock = "none"
    /\ r2cLock' = "worker"
    /\ wpc' = "popping"
    /\ UNCHANGED <<mpc, m_Terminate, m_RenderToComputeQueue, m_ComputeToRenderQueue,
                   m_CurrentRenderTexture, m_LastRenderTextureUse, newTexture,
                   newTextureLastUse, popped, texture, textureLastUse, created,
                   drawCL, computeCL, gpuVars, ghostVars, qVars, c2rLock, extVars>>

\* Lines 263, 57-67: TryPop on the render->compute queue under the mutex,
\* which is released; a failed attempt spins.
WorkerTryPop ==
    /\ wpc = "popping"
    /\ r2cLock' = "none"
    /\ LET r == TryPop(m_RenderToComputeQueue, texture, textureLastUse) IN
         /\ m_RenderToComputeQueue' = r.queue
         /\ texture' = r.outTexture
         /\ textureLastUse' = r.outLastUse
         /\ wpc' = IF r.ok THEN "check" ELSE "poll"
         /\ Release({r.dropped}, TRUE)
    /\ UNCHANGED <<mpc, m_Terminate, m_ComputeToRenderQueue,
                   m_CurrentRenderTexture, m_LastRenderTextureUse, newTexture,
                   newTextureLastUse, popped, created, drawCL, computeCL,
                   gpuVars, lastSample, lastWrite, qVars, c2rLock, extVars>>

\* A plausible slip: the check after the busy-poll is missing, so the worker
\* goes on with whatever the poll left in its local handle.
WorkerCheckNoFlag ==
    /\ wpc = "check"
    /\ wpc' = "record"
    /\ UNCHANGED <<mpc, m_Terminate, m_RenderToComputeQueue, m_ComputeToRenderQueue,
                   m_CurrentRenderTexture, m_LastRenderTextureUse, newTexture,
                   newTextureLastUse, popped, texture, textureLastUse, created,
                   drawCL, computeCL, gpuVars, ghostVars, qVars, lockVars, extVars>>

\* Lines 266-267: if (m_Terminate) break; the local handle is destroyed when
\* the loop body is left.
WorkerCheck ==
    /\ wpc = "check"
    /\ IF m_Terminate
       THEN /\ wpc' = "done"
            /\ Release({texture}, TRUE)
            /\ texture' = Null
       ELSE /\ wpc' = "record"
            /\ UNCHANGED <<texture, relVars>>
    /\ UNCHANGED <<mpc, m_Terminate, m_RenderToComputeQueue, m_ComputeToRenderQueue,
                   m_CurrentRenderTexture, m_LastRenderTextureUse, newTexture,
                   newTextureLastUse, popped, textureLastUse, created,
                   drawCL, computeCL, gpuVars, lastSample, lastWrite, qVars, lockVars, extVars>>

\* A plausible slip: the flag is looked at again before the dispatch is
\* recorded, and the iteration is abandoned when it is set.
WorkerRecordCancellable ==
    /\ wpc = "record"
    /\ IF m_Terminate
       THEN /\ wpc' = "done"
            /\ Release({texture}, TRUE)
            /\ texture' = Null
            /\ UNCHANGED computeCL
       ELSE /\ computeCL' = texture
            /\ wpc' = "wait"
            /\ UNCHANGED <<texture, relVars>>
    /\ UNCHANGED <<mpc, m_Terminate, m_RenderToComputeQueue, m_ComputeToRenderQueue,
                   m_CurrentRenderTexture, m_LastRenderTextureUse, newTexture,
                   newTextureLastUse, popped, textureLastUse, created,
                   drawCL, gpuVars, lastSample, lastWrite, qVars, lockVars, extVars>>

\* Lines 269-285: the compute command list is opened, the texture is bound as
\* UAV, the dispatch is recorded and the list is closed.
WorkerRecord ==
    /\ wpc = "record"
    /\ computeCL' = texture
    /\ wpc' = "wait"
    /\ UNCHANGED <<mpc, m_Terminate, m_RenderToComputeQueue, m_ComputeToRenderQueue,
                   m_CurrentRenderTexture, m_LastRenderTextureUse, newTexture,
                   newTextureLastUse, popped, texture, textureLastUse, created,
                   drawCL, gpuVars, ghostVars, qVars, lockVars, extVars>>

\* A plausible slip: the wait is left out.
ComputeWaitNone == cmpPendingWait

\* Lines 287-288: if (textureLastUse > 0)
\* queueWaitForCommandList(Compute, Graphics, textureLastUse).
ComputeWait ==
    IF textureLastUse > 0 THEN Max(cmpPendingWait, textureLastUse)
    ELSE cmpPendingWait

WorkerWait ==
    /\ wpc = "wait"
    /\ cmpPendingWait' = ComputeWait
    /\ wpc' = "exec"
    /\ UNCHANGED <<mpc, m_Terminate, m_RenderToComputeQueue, m_ComputeToRenderQueue,
                   m_CurrentRenderTexture, m_LastRenderTextureUse, newTexture,
                   newTextureLastUse, popped, texture, textureLastUse, created,
                   drawCL, computeCL, gfxPendingWait, gfxSubmitted, cmpSubmitted,
                   gfxInflight, cmpInflight, gfxRunning, cmpRunning,
                   ghostVars, qVars, lockVars, extVars>>

\* A plausible slip: the number returned by the submission is dropped.
SubmittedLastUseKept(seq) == textureLastUse

\* Line 289: textureLastUse = executeCommandList(...).
SubmittedLastUse(seq) == seq

\* Line 289: the command list is submitted to the compute queue and the
\* returned sequence number replaces textureLastUse.
WorkerExecute ==
    /\ wpc = "exec"
    /\ LET seq == cmpSubmitted + 1 IN
         /\ cmpSubmitted' = seq
         /\ cmpInflight' = Append(cmpInflight,
                [seq |-> seq, tex |-> computeCL, wait |-> cmpPendingWait,
                 dep |-> IF computeCL = Null THEN 0 ELSE lastSample[computeCL]])
         /\ textureLastUse' = SubmittedLastUse(seq)
         /\ lastWrite' = IF computeCL = Null THEN lastWrite
                         ELSE [lastWrite EXCEPT ![computeCL] = seq]
    /\ cmpPendingWait' = 0
    /\ computeCL' = Null
    /\ wpc' = "push"
    /\ UNCHANGED <<mpc, m_Terminate, m_RenderToComputeQueue, m_ComputeToRenderQueue,
                   m_CurrentRenderTexture, m_LastRenderTextureUse, newTexture,
                   newTextureLastUse, popped, texture, created, drawCL,
                   gfxPendingWait, gfxSubmitted, gfxInflight, gfxRunning, cmpRunning,
                   relVars, lastSample, qVars, lockVars, extVars>>

\* Lines 291, 49: Push is called on the compute->render queue and takes its
\* mutex.
WorkerPushLock ==
    /\ wpc = "push"
    /\ c2rLock = "none"
    /\ c2rLock' = "worker"
    /\ wpc' = "pushing"
    /\ UNCHANGED <<mpc, m_Terminate, m_RenderToComputeQueue, m_ComputeToRenderQueue,
                   m_CurrentRenderTexture, m_LastRenderTextureUse, newTexture,
                   newTextureLastUse, popped, texture, textureLastUse, created,
                   drawCL, computeCL, gpuVars, ghostVars, qVars, r2cLock, extVars>>

\* A plausible slip: the mutex is still held when Push returns.
WorkerPushHold ==
    /\ wpc = "pushing"
    /\ m_ComputeToRenderQueue' = Push(m_ComputeToRenderQueue, texture, textureLastUse)
    /\ texture' = Null
    /\ wpc' = "sleep"
    /\ UNCHANGED <<mpc, m_Terminate, m_RenderToComputeQueue,
                   m_CurrentRenderTexture, m_LastRenderTextureUse, newTexture,
                   newTextureLastUse, popped, textureLastUse, created,
                   drawCL, computeCL, gpuVars, ghostVars, qVars, lockVars, extVars>>

\* Lines 291, 50-51: the texture is moved into the compute->render queue under
\* the mutex, which is released.
WorkerPush ==
    /\ wpc = "pushing"
    /\ c2rLock' = "none"
    /\ m_ComputeToRenderQueue' = Push(m_ComputeToRenderQueue, texture, textureLastUse)
    /\ texture' = Null
    /\ wpc' = "sleep"
    /\ UNCHANGED <<mpc, m_Terminate, m_RenderToComputeQueue,
                   m_CurrentRenderTexture, m_LastRenderTextureUse, newTexture,
                   newTextureLastUse, popped, textureLastUse, created,
                   drawCL, computeCL, gpuVars, ghostVars, qVars, r2cLock, extVars>>

\* Lines 293-295: counter++, sleep_until(nextTimePoint); the iteration's
\* locals end and the loop goes back to its condition.
WorkerSleep ==
    /\ wpc = "sleep"
    /\ Release({texture}, TRUE)
    /\ texture' = Null
    /\ wpc' = "top"
    /\ UNCHANGED <<mpc, m_Terminate, m_RenderToComputeQueue, m_ComputeToRenderQueue,
                   m_CurrentRenderTexture, m_LastRenderTextureUse, newTexture,
                   newTextureLastUse, popped, textureLastUse, created,
                   drawCL, computeCL, gpuVars, lastSample, lastWrite, qVars, lockVars, extVars>>

Worker ==
    \/ WorkerTop \/ WorkerPollFlag \/ WorkerTryPopLock \/ WorkerTryPop
    \/ WorkerCheck \/ WorkerRecord \/ WorkerWait \/ WorkerExecute
    \/ WorkerPushLock \/ WorkerPush \/ WorkerSleep

\* ------------------------------------------- main and ~AsyncCompute

\* main, lines 327-329: the message loop returns, the render pass is removed
\* and the scope of `example` ends.
MainQuit ==
    /\ mpc = "idle"
    /\ registered' = FALSE
    /\ mpc' = "dtor"
    /\ UNCHANGED <<wpc, m_Terminate, m_RenderToComputeQueue, m_ComputeToRenderQueue,
                   m_CurrentRenderTexture, m_LastRenderTextureUse, newTexture,
                   newTextureLastUse, popped, texture, textureLastUse, created,
                   drawCL, computeCL, gpuVars, ghostVars, qVars, lockVars,
                   initResult, logged, exitStatus, received>>

\* Line 107: m_Terminate = true.
DtorSetTerminate ==
    /\ mpc = "dtor"
    /\ m_Terminate' = TRUE
    /\ mpc' = "join"
    /\ UNCHANGED <<wpc, m_RenderToComputeQueue, m_ComputeToRenderQueue,
                   m_CurrentRenderTexture, m_LastRenderTextureUse, newTexture,
                   newTextureLastUse, popped, texture, textureLastUse, created,
                   drawCL, computeCL, gpuVars, ghostVars, qVars, lockVars, extVars>>

\* Line 108: m_ComputeThread.join(). It returns when the worker has ended. On
\* a thread that was never started, std::thread::join throws
\* std::system_error; the destructor is noexcept, so std::terminate is called.
DtorJoin ==
    /\ mpc = "join"
    /\ IF wpc = "unspawned"
       THEN /\ mpc' = "aborted"
            /\ exitStatus' = "abort"
       ELSE /\ wpc = "done"
            /\ mpc' = "release"
            /\ UNCHANGED exitStatus
    /\ UNCHANGED <<wpc, m_Terminate, m_RenderToComputeQueue, m_ComputeToRenderQueue,
                   m_CurrentRenderTexture, m_LastRenderTextureUse, newTexture,
                   newTextureLastUse, popped, texture, textureLastUse, created,
                   drawCL, computeCL, gpuVars, ghostVars, qVars, lockVars,
                   initResult, registered, logged, received>>

\* Line 109: the destructor's body has ended and the members are destroyed:
\* the display texture and whatever the two queues still hold. main, lines
\* 332-336: the device is shut down and main returns 0.
DtorRelease ==
    /\ mpc = "release"
    /\ Release({m_CurrentRenderTexture}
                 \cup QueueTextures(m_RenderToComputeQueue)
                 \cup QueueTextures(m_ComputeToRenderQueue), FALSE)
    /\ m_CurrentRenderTexture' = Null
    /\ m_RenderToComputeQueue' = <<>>
    /\ m_ComputeToRenderQueue' = <<>>
    /\ mpc' = "exited"
    /\ exitStatus' = "0"
    /\ UNCHANGED <<wpc, m_Terminate, m_LastRenderTextureUse, newTexture,
                   newTextureLastUse, popped, texture, textureLastUse, created,
                   drawCL, computeCL, gpuVars, lastSample, lastWrite, qVars, lockVars,
                   initResult, registered, logged, received>>

Main ==
    \/ MainDeviceFail \/ MainCreateDevice \/ MainAddPass
    \/ InitFail \/ InitResources \/ InitPush \/ InitSpawn
    \/ RenderBegin \/ RenderTryPop \/ RenderSwap \/ RenderRecycleLock
    \/ RenderRecycle \/ RenderWait
    \/ RenderRecord \/ RenderExecute
    \/ MainQuit \/ DtorSetTerminate \/ DtorJoin \/ DtorRelease

\* ------------------------------------------------------------- the GPU

\* A queue executes its submissions in order; a submission starts when the
\* submission named by its wait has finished on the other queue.
GfxStart ==
    /\ ~gfxRunning
    /\ gfxInflight # <<>>
    /\ Head(gfxInflight).wait <= cmpDone
    /\ gfxRunning' = TRUE
    /\ UNCHANGED <<cpuVars, gfxPendingWait, cmpPendingWait, gfxSubmitted,
                   cmpSubmitted, gfxInflight, cmpInflight, cmpRunning,
                   ghostVars, qVars, lockVars, extVars>>

GfxFinish ==
    /\ gfxRunning
    /\ gfxRunning' = FALSE
    /\ gfxInflight' = Tail(gfxInflight)
    /\ UNCHANGED <<cpuVars, gfxPendingWait, cmpPendingWait, gfxSubmitted,
                   cmpSubmitted, cmpInflight, cmpRunning, ghostVars, qVars, lockVars, extVars>>

CmpStart ==
    /\ ~cmpRunning
    /\ cmpInflight # <<>>
    /\ Head(cmpInflight).wait <= gfxDone
    /\ cmpRunning' = TRUE
    /\ UNCHANGED <<cpuVars, gfxPendingWait, cmpPendingWait, gfxSubmitted,
                   cmpSubmitted, gfxInflight, cmpInflight, gfxRunning,
                   ghostVars, qVars, lockVars, extVars>>

CmpFinish ==
    /\ cmpRunning
    /\ cmpRunning' = FALSE
    /\ cmpInflight' = Tail(cmpInflight)
    /\ UNCHANGED <<cpuVars, gfxPendingWait, cmpPendingWait, gfxSubmitted,
                   cmpSubmitted, gfxInflight, gfxRunning, ghostVars, qVars, lockVars, extVars>>

Gpu == GfxStart \/ GfxFinish \/ CmpStart \/ CmpFinish

\* ------------------------------------------------------ specifications

Next == Main \/ Worker \/ Gpu

Spec == Init /\ [][Next]_vars

\* The worker is a thread of its own: the scheduler keeps running it.
FairSpec == Spec /\ WF_vars(Worker)

\* The steps of the render thread from the registration of the render pass
\* to the end of a frame, the two mutex acquisitions apart.
RenderFrame ==
    \/ MainAddPass \/ RenderTryPop \/ RenderSwap \/ RenderRecycle
    \/ RenderWait \/ RenderRecord \/ RenderExecute

\* Both threads run, and frames keep occurring for as long as the message
\* loop runs: a frame that can begin does begin, and a begun frame goes on.
\* The render thread's mutex acquisitions are strongly fair: the worker's
\* busy-poll takes and releases the render->compute mutex over and over, and
\* the thread that asks for it gets it at some point. Leaving the message
\* loop (MainQuit) is never forced.
LiveSpec ==
    /\ Spec
    /\ WF_vars(Worker)
    /\ WF_vars(RenderFrame)
    /\ SF_vars(RenderBegin)
    /\ SF_vars(RenderRecycleLock)

\* --------------------------------- one TextureQueue, arbitrary callers

\* Any caller pushes any handle with any number.
QPush ==
    /\ qOps < MaxQueueOps
    /\ \E tex \in Textures, lastUse \in 0..MaxSeqNo :
         /\ qQueue' = Push(qQueue, tex, lastUse)
         /\ qPushed' = Append(qPushed, [texture |-> tex, lastUse |-> lastUse])
    /\ qPrev' = [queue |-> qQueue, out |-> qOut]
    /\ qLast' = "push"
    /\ qOps' = qOps + 1
    /\ UNCHANGED <<qPopped, qOut, cpuVars, gpuVars, ghostVars, lockVars, extVars>>

\* Any caller calls TryPop with its out-parameters as the last call left them.
QTryPop ==
    /\ qOps < MaxQueueOps
    /\ LET r == TryPop(qQueue, qOut.texture, qOut.lastUse) IN
         /\ qQueue' = r.queue
         /\ qOut' = [texture |-> r.outTexture, lastUse |-> r.outLastUse]
         /\ qLast' = IF r.ok THEN "popped" ELSE "empty"
         /\ qPopped' = IF r.ok THEN Append(qPopped, qOut') ELSE qPopped
    /\ qPrev' = [queue |-> qQueue, out |-> qOut]
    /\ qOps' = qOps + 1
    /\ UNCHANGED <<qPushed, cpuVars, gpuVars, ghostVars, lockVars, extVars>>

NextQ == QPush \/ QTryPop

QueueSpec == Init /\ [][NextQ]_vars

\* ================================================================ claims

\* Init has returned true: the pool is seeded and the worker was started.
StartupDone == wpc # "unspawned"

Count(b) == IF b THEN 1 ELSE 0

\* How many entries of a queue hold texture t.
InQueue(queue, t) == Cardinality({i \in 1..Len(queue) : queue[i].texture = t})

\* How many CPU-side holders texture t has: the two queues, the worker's local
\* handle, the display texture and the frame's local handle.
Holders(t) ==
    InQueue(m_RenderToComputeQueue, t) + InQueue(m_ComputeToRenderQueue, t)
        + Count(texture = t) + Count(m_CurrentRenderTexture = t)
        + Count(newTexture = t)

\* Textures held anywhere on the CPU side, counted with multiplicity.
HeldCount ==
    Len(m_RenderToComputeQueue) + Len(m_ComputeToRenderQueue)
        + Count(texture # Null) + Count(m_CurrentRenderTexture # Null)
        + Count(newTexture # Null)

\* C1 as stated: from the end of startup on, and for as long as the object's
\* members exist, the textures in the two queues plus those held by the
\* worker and by the render thread number exactly NumTextures.
C1_Original ==
    (StartupDone /\ mpc # "exited") => HeldCount = NumTextures

\* C1 amended: from the end of startup on, every pool texture is in exactly
\* one place (a queue, the worker, the render thread) or has been destroyed,
\* and nothing is destroyed before the termination flag is set: until then
\* the count is NumTextures.
C1_Conservation ==
    StartupDone =>
        /\ \A t \in Textures : Holders(t) + Count(t \in released) = 1
        /\ ~m_Terminate => (released = {} /\ HeldCount = NumTextures)

\* Both threads hold a texture while the program runs.
C1_Witness ==
    /\ ~m_Terminate
    /\ mpc = "exec"
    /\ texture # Null
    /\ m_CurrentRenderTexture # Null

\* C2: no texture is bound in the worker's compute command list and in the
\* render thread's draw command list at once; a command list only binds a
\* texture its thread holds, and every live texture has exactly one holder.
C2_SingleOwner ==
    StartupDone =>
        /\ ~(drawCL # Null /\ drawCL = computeCL)
        /\ drawCL # Null => drawCL = m_CurrentRenderTexture
        /\ computeCL # Null => computeCL = texture
        /\ \A t \in Textures : t \notin released => Holders(t) = 1

\* Both command lists are recorded at the same time.
C2_Witness ==
    /\ drawCL # Null
    /\ computeCL # Null

\* C3: what successful TryPop calls returned, followed by what the queue
\* still holds, is what was pushed, in order and with the pushed numbers; a
\* successful TryPop returns the front; TryPop on an empty queue returns
\* false, leaves queue and out-parameters alone, and TryPop never blocks.
C3_Fifo ==
    /\ qPopped \o qQueue = qPushed
    /\ qLast = "popped" =>
          /\ qPrev.queue # <<>>
          /\ qOut = Head(qPrev.queue)
          /\ qQueue = Tail(qPrev.queue)
    /\ qLast = "empty" =>
          /\ qPrev.queue = <<>>
          /\ qQueue = <<>>
          /\ qOut = qPrev.out
    /\ qOps < MaxQueueOps => ENABLED QTryPop

\* Two different pairs came out in order and a further TryPop found the
\* queue empty.
C3_Witness ==
    /\ Len(qPopped) >= 2
    /\ qPopped[1] # qPopped[2]
    /\ qLast = "empty"
    /\ qOut # [texture |-> Null, lastUse |-> 0]

\* Every entry of a queue satisfies P.
AllEntries(queue, P(_)) == \A i \in 1..Len(queue) : P(queue[i])

\* The entry carries the number of the last graphics submission that sampled
\* its texture (0: none did).
CarriesLastSample(e) == e.lastUse = lastSample[e.texture]

\* The worker holds a texture it popped and has not yet submitted work for.
WorkerHoldsPopped == wpc \in {"check", "record", "wait", "exec"} /\ texture # Null

\* C4: a texture in the render->compute queue, or popped from it by the
\* worker, carries the sequence number of the most recent graphics submission
\* that sampled it: no graphics submission that reads it has a greater one.
C4_RecycleCarriesLastUse ==
    /\ AllEntries(m_RenderToComputeQueue, CarriesLastSample)
    /\ WorkerHoldsPopped => textureLastUse = lastSample[texture]
    /\ \A i \in 1..Len(m_RenderToComputeQueue), j \in 1..Len(gfxInflight) :
          gfxInflight[j].tex = m_RenderToComputeQueue[i].texture
              => gfxInflight[j].seq <= m_RenderToComputeQueue[i].lastUse

\* A recycled texture waits in the queue while later frames were submitted.
C4_Witness ==
    \E i \in 1..Len(m_RenderToComputeQueue) :
        /\ m_RenderToComputeQueue[i].lastUse > 0
        /\ m_RenderToComputeQueue[i].lastUse < gfxSubmitted

\* C5: every pair in the compute->render queue carries a nonzero number, the
\* one of the compute submission that last wrote its texture; the worker
\* pushes with such a number; before any frame was submitted, the pairs in
\* the render->compute queue are the seeded ones and carry 0.
C5_SequenceNumbers ==
    /\ \A i \in 1..Len(m_ComputeToRenderQueue) :
          /\ m_ComputeToRenderQueue[i].lastUse # 0
          /\ m_ComputeToRenderQueue[i].lastUse
                 = lastWrite[m_ComputeToRenderQueue[i].texture]
    /\ wpc = "push" => textureLastUse # 0
    /\ gfxSubmitted = 0 =>
          \A i \in 1..Len(m_RenderToComputeQueue) :
              m_RenderToComputeQueue[i].lastUse = 0

\* The worker published both pool textures.
C5_Witness ==
    /\ Len(m_ComputeToRenderQueue) = NumTextures
    /\ gfxSubmitted > 0

\* C6: when the worker is about to submit, the compute queue's pending wait
\* is the number the texture came with (none when that is 0); so every compute
\* submission waits for the last graphics submission that sampled its
\* texture before it, and on the GPU it runs only once that one has finished.
C6_WriteAfterRead ==
    /\ wpc = "exec" =>
          /\ cmpPendingWait = textureLastUse
          /\ textureLastUse = lastSample[texture]
    /\ \A i \in 1..Len(cmpInflight) : cmpInflight[i].wait = cmpInflight[i].dep
    /\ cmpRunning => Head(cmpInflight).dep <= gfxDone
    /\ (cmpRunning /\ gfxRunning) => Head(cmpInflight).tex # Head(gfxInflight).tex

\* A compute dispatch on a recycled texture is running on the GPU.
C6_Witness ==
    /\ cmpRunning
    /\ Head(cmpInflight).dep > 0

\* C7: when a frame is about to submit, the graphics queue's pending wait is
\* the number that came with the texture popped in this frame, and there is
\* none when nothing was popped; on the GPU a graphics submission runs only
\* once the compute submission that last wrote its texture has finished.
C7_ReadAfterWrite ==
    /\ mpc = "exec" =>
          /\ gfxPendingWait = (IF popped THEN newTextureLastUse ELSE 0)
          /\ popped => newTextureLastUse = lastWrite[m_CurrentRenderTexture]
    /\ \A j \in 1..Len(gfxInflight) :
          gfxInflight[j].wait \in {0, gfxInflight[j].dep}
    /\ gfxRunning => Head(gfxInflight).dep <= cmpDone
    /\ (cmpRunning /\ gfxRunning) => Head(cmpInflight).tex # Head(gfxInflight).tex

\* A frame that popped nothing samples a computed texture and runs on the GPU.
C7_Witness ==
    /\ gfxRunning
    /\ Head(gfxInflight).dep > 0
    /\ Head(gfxInflight).wait = 0

\* C8: once the termination flag is set, a started worker ends, wherever in
\* its loop it is, given only that the worker thread keeps being scheduled.
C8_WorkerTerminates == (m_Terminate /\ StartupDone) ~> (wpc = "done")

\* The flag is set while the worker spins on the empty render->compute queue.
C8_Witness ==
    /\ m_Terminate
    /\ wpc = "trypop"
    /\ m_RenderToComputeQueue = <<>>

RenderPcs == {"pop", "swap", "recycle", "rpush", "gwait", "open", "exec"}

\* The render thread is at a Push or TryPop whose mutex the worker holds; the
\* worker is then inside its own Push or TryPop and its next step releases it.
RenderAtHeldMutex ==
    /\ \/ mpc = "idle" /\ c2rLock = "worker"
       \/ mpc = "recycle" /\ r2cLock = "worker"
    /\ ENABLED (WorkerPush \/ WorkerTryPop)

\* C10: a frame can always start and always take its next step, whatever the
\* worker does, but for the moment in which the worker is inside a queue
\* call, under the mutex; only the TryPop of a frame touches the
\* compute->render queue and it returns at once; a frame whose TryPop
\* returned nothing goes straight to recording, leaves the display texture
\* and both queues alone, enqueues no wait and still submits.
C10_RenderNeverBlocks ==
    /\ []((mpc = "idle" /\ gfxSubmitted < MaxFrames)
            => (ENABLED RenderBegin \/ RenderAtHeldMutex))
    /\ [](mpc = "pop" => ENABLED RenderTryPop)
    /\ [](mpc \in RenderPcs => (ENABLED Main \/ RenderAtHeldMutex))
    /\ [][(mpc \in RenderPcs \ {"pop"} /\ mpc' # mpc)
             => m_ComputeToRenderQueue' = m_ComputeToRenderQueue]_vars
    /\ [][(mpc = "pop" /\ mpc' # mpc /\ ~popped')
             => /\ mpc' = "open"
                /\ UNCHANGED <<m_CurrentRenderTexture, m_RenderToComputeQueue,
                               m_ComputeToRenderQueue, gfxPendingWait>>]_vars
    /\ [][(mpc \in {"open", "exec"} /\ ~popped /\ mpc' # mpc)
             => /\ UNCHANGED <<m_CurrentRenderTexture, m_RenderToComputeQueue,
                               m_ComputeToRenderQueue>>
                /\ mpc = "open" => mpc' = "exec"
                /\ mpc = "exec" => (mpc' = "idle" /\ gfxSubmitted' = gfxSubmitted + 1)]_vars

\* A frame that popped nothing is about to submit, with the previous display
\* texture, while the worker is in the middle of an iteration.
C10_Witness ==
    /\ mpc = "exec"
    /\ ~popped
    /\ m_CurrentRenderTexture # Null
    /\ wpc \in {"record", "wait", "exec"}

\* C11: a frame records a draw exactly when m_CurrentRenderTexture is not
\* null, and the draw samples that texture; as long as Render has never
\* popped a texture, its frames record the clear only, and they are still
\* submitted to the graphics queue.
C11_DrawIffTexture ==
    /\ [](mpc = "exec" => drawCL = m_CurrentRenderTexture)
    /\ [](~received =>
            /\ m_CurrentRenderTexture = Null
            /\ drawCL = Null
            /\ \A j \in 1..Len(gfxInflight) : gfxInflight[j].tex = Null)
    /\ [][(mpc = "exec" /\ mpc' # mpc)
             => /\ gfxSubmitted' = gfxSubmitted + 1
                /\ gfxInflight'[Len(gfxInflight')].tex = drawCL]_vars

\* A second clear-only frame is about to be submitted although the worker
\* has published a texture by now.
C11_Witness ==
    /\ ~received
    /\ mpc = "exec"
    /\ gfxSubmitted >= 1
    /\ m_ComputeToRenderQueue # <<>>

\* C12 as stated: when Init has returned false the render pass is never
\* registered, and the process ends with a nonzero status after a message
\* has been logged.
C12_InitFailureReported ==
    initResult = "false" =>
        /\ ~registered
        /\ exitStatus # "0"
        /\ exitStatus # "running" => logged

\* C13: when Init has returned false no texture was created or pushed to the
\* render->compute queue and the worker thread was not spawned; the worker is
\* spawned only on the path where Init returns true, at a step where every
\* pool texture is in the render->compute queue.
C13_InitFailsBeforeSpawn ==
    /\ [](initResult = "false"
            => /\ created = 0
               /\ m_RenderToComputeQueue = <<>>
               /\ wpc = "unspawned")
    /\ [](wpc # "unspawned" => (initResult = "true" /\ created = NumTextures))
    /\ [][(wpc = "unspawned" /\ wpc' # "unspawned")
             => /\ Len(m_RenderToComputeQueue) = NumTextures
                /\ QueueTextures(m_RenderToComputeQueue) = Textures
                /\ initResult' = "true"]_vars

\* Init has failed and the object is being destroyed with no worker thread.
C13_Witness ==
    /\ initResult = "false"
    /\ mpc = "join"
    /\ wpc = "unspawned"

\* The worker's positions between the check after the busy-poll and the end
\* of the Push to the compute->render queue.
IterationPcs == {"record", "wait", "exec", "push", "pushing"}

\* C14: the worker ends only at the loop condition or at the check after the
\* busy-poll. Past that check it goes through record, wait, submit and push in
\* this order whatever m_Terminate is: each of these steps can be taken (the
\* Push at most waits for a TryPop of the render thread to release the
\* mutex), the submission is made, and the texture is pushed to the
\* compute->render queue with the number of that submission.
C14_NoMidDispatchCancel ==
    /\ [][(wpc # "done" /\ wpc' = "done") => wpc \in {"top", "check"}]_vars
    /\ [](wpc \in IterationPcs
            => \/ ENABLED Worker
               \/ wpc = "push" /\ c2rLock = "main" /\ ENABLED RenderTryPop)
    /\ [](wpc \in IterationPcs => texture # Null)
    /\ [](wpc \in {"push", "pushing"}
            => (textureLastUse = cmpSubmitted /\ lastWrite[texture] = cmpSubmitted))
    /\ [][(wpc \in IterationPcs /\ wpc' # wpc)
             => /\ wpc = "record" => wpc' = "wait"
                /\ wpc = "wait" => wpc' = "exec"
                /\ wpc = "exec" => (wpc' = "push" /\ cmpSubmitted' = cmpSubmitted + 1)
                /\ wpc = "push" => wpc' = "pushing"
                /\ wpc = "pushing"
                     => /\ wpc' = "sleep"
                        /\ m_ComputeToRenderQueue' =
                             Append(m_ComputeToRenderQueue,
                                    [texture |-> texture, lastUse |-> cmpSubmitted])]_vars

\* The flag was set after the worker had passed the check (it would have
\* ended there otherwise); the worker has submitted and is inside the Push.
C14_Witness ==
    /\ m_Terminate
    /\ wpc = "pushing"
    /\ mpc = "join"

\* C15: a queue's mutex is held exactly while its holder is inside Push or
\* TryPop on that queue, so no thread holds both mutexes, sleeps or is
\* elsewhere while holding one; the step taken under a mutex releases it and
\* enqueues no wait and submits nothing; the holder of a mutex can always take
\* that step, so no thread waits for a mutex for ever.
C15_MutexOnlyAcrossQueueOp ==
    /\ [](/\ c2rLock = "main" <=> mpc = "pop"
          /\ r2cLock = "main" <=> mpc = "rpush"
          /\ r2cLock = "worker" <=> wpc = "popping"
          /\ c2rLock = "worker" <=> wpc = "pushing")
    /\ []((c2rLock = "main" \/ r2cLock = "main")
            => ENABLED (RenderTryPop \/ RenderRecycle))
    /\ []((c2rLock = "worker" \/ r2cLock = "worker")
            => ENABLED (WorkerTryPop \/ WorkerPush))
    /\ [][((mpc \in {"pop", "rpush"} /\ mpc' # mpc)
             \/ (wpc \in {"popping", "pushing"} /\ wpc' # wpc))
            => UNCHANGED <<gfxPendingWait, cmpPendingWait, gfxSubmitted,
                           cmpSubmitted, gfxInflight, cmpInflight>>]_vars
    /\ [][(mpc \in {"pop", "rpush"} /\ mpc' # mpc)
            => (c2rLock' # "main" /\ r2cLock' # "main")]_vars
    /\ [][(wpc \in {"popping", "pushing"} /\ wpc' # wpc)
            => (c2rLock' # "worker" /\ r2cLock' # "worker")]_vars

\* The render thread is about to recycle a texture while the worker is
\* inside TryPop on the same queue and holds its mutex.
C15_Witness ==
    /\ mpc = "recycle"
    /\ newTexture # Null
    /\ r2cLock = "worker"

\* The message loop has been left (or was never entered).
Quit == mpc \in {"dtor", "join", "release", "exited", "aborted"}

\* Frames that are still to begin within the bound on frames.
FreshFrames ==
    MaxFrames - gfxSubmitted - Count(mpc \in RenderPcs)

\* The frame being submitted draws texture t.
Displayed(t) == mpc = "exec" /\ drawCL = t /\ m_CurrentRenderTexture = t

WorkerPolling == wpc \in {"poll", "trypop", "popping"} /\ texture = Null

\* C16: with the pool of 2 textures, while the message loop runs and frames
\* keep occurring (two more frames are still to begin), a texture that is in
\* the compute->render queue is eventually drawn by a frame, and a worker
\* that is in its busy-poll eventually obtains a texture.
C16_NoStarvation ==
    /\ \A t \in Textures :
          (InQueue(m_ComputeToRenderQueue, t) > 0 /\ FreshFrames >= NumTextures)
              ~> (Displayed(t) \/ Quit)
    /\ (WorkerPolling /\ FreshFrames >= NumTextures)
              ~> (texture # Null \/ Quit)

\* The worker spins on the empty render->compute queue: it has written both
\* textures, which wait in the compute->render queue for the first frames.
C16_Witness ==
    /\ WorkerPolling
    /\ m_RenderToComputeQueue = <<>>
    /\ Len(m_ComputeToRenderQueue) = NumTextures
    /\ FreshFrames >= NumTextures
    /\ ~Quit

\* C17: when the worker has popped a texture and finds the flag set at the
\* check after the busy-poll, it ends there: nothing is submitted, neither
\* queue changes, and the texture, which only the worker held, is in no queue
\* and ends with the worker's local handle. Every entry of the
\* compute->render queue, at termination as before, is a texture written by
\* the compute submission whose number it carries.
C17_TerminationRace ==
    /\ []((wpc = "check" /\ m_Terminate) => ENABLED WorkerCheck)
    /\ []((wpc = "check" /\ texture # Null) => Holders(texture) = 1)
    /\ [][(wpc = "check" /\ m_Terminate /\ wpc' # wpc)
            => /\ wpc' = "done"
               /\ UNCHANGED <<cmpSubmitted, cmpInflight, cmpPendingWait,
                              m_RenderToComputeQueue, m_ComputeToRenderQueue>>
               /\ texture # Null
                    => /\ texture \in released'
                       /\ InQueue(m_RenderToComputeQueue', texture) = 0
                       /\ InQueue(m_ComputeToRenderQueue', texture) = 0]_vars
    /\ [](\A i \in 1..Len(m_ComputeToRenderQueue) :
            /\ m_ComputeToRenderQueue[i].lastUse > 0
            /\ m_ComputeToRenderQueue[i].lastUse
                 = lastWrite[m_ComputeToRenderQueue[i].texture])

\* The worker has ended in the race: the texture it had popped went with its
\* local handle and the other one is still in the render->compute queue.
C17_Witness ==
    /\ wpc = "done"
    /\ releasedEarly # {}
    /\ m_RenderToComputeQueue # <<>>

\* The pair the worker popped, from the end of the busy-poll to the wait.
WorkerBeforeSubmit == wpc \in {"check", "record", "wait"} /\ texture # Null

\* C18: a pair pushed by the render thread carries a number greater than 0;
\* hence a pair of the render->compute queue, and the pair the worker popped,
\* carries 0 exactly when its texture has never been dispatched on, and the
\* worker's submission has a compute-queue wait (on the number carried) for
\* every dispatch on a texture but the first.
C18_WaitSkippedOnlyFirst ==
    /\ [][(mpc \in {"recycle", "rpush"} /\ mpc' = "gwait"
              /\ m_RenderToComputeQueue' # m_RenderToComputeQueue)
            => /\ m_LastRenderTextureUse > 0
               /\ m_RenderToComputeQueue'[Len(m_RenderToComputeQueue')].lastUse
                    = m_LastRenderTextureUse]_vars
    /\ [](\A i \in 1..Len(m_RenderToComputeQueue) :
            m_RenderToComputeQueue[i].lastUse = 0
                <=> lastWrite[m_RenderToComputeQueue[i].texture] = 0)
    /\ [](WorkerBeforeSubmit => (textureLastUse = 0 <=> lastWrite[texture] = 0))
    /\ [](wpc = "exec"
            => /\ lastWrite[texture] = 0 => cmpPendingWait = 0
               /\ lastWrite[texture] > 0
                    => (cmpPendingWait = textureLastUse /\ textureLastUse > 0))

\* A second dispatch on a texture is about to be submitted, with its wait.
C18_Witness ==
    /\ wpc = "exec"
    /\ lastWrite[texture] > 0
    /\ cmpPendingWait > 0

\* C19 as stated: the destructor completes normally from every state in
\* which it runs: its join is never made on a thread that was not started,
\* and the process is never terminated abnormally.
C19_ShutdownCompletes ==
    /\ mpc = "join" => wpc # "unspawned"
    /\ mpc # "aborted"

\* The render thread is between two frames, or in the destructor before the
\* members are destroyed.
BetweenFrames == mpc \in {"idle", "dtor", "join", "release"}

\* Textures on the compute side: the two queues and the worker.
ComputeSide ==
    Len(m_RenderToComputeQueue) + Len(m_ComputeToRenderQueue)
        + Count(texture # Null)

\* C20: once Render has popped its first texture and swapped it in,
\* m_CurrentRenderTexture is not null for as long as the member exists;
\* between frames the render thread holds that one texture and nothing else;
\* and from the first pop on at most NumTextures - 1 textures are on the
\* compute side.
C20_RenderKeepsOne ==
    /\ (received /\ mpc \notin {"swap", "exited"}) => m_CurrentRenderTexture # Null
    /\ (received /\ BetweenFrames) => newTexture = Null
    /\ received => ComputeSide <= NumTextures - 1

\* Between two frames the render thread displays one texture and the other
\* waits in the compute->render queue.
C20_Witness ==
    /\ received
    /\ mpc = "idle"
    /\ gfxSubmitted >= 2
    /\ Len(m_ComputeToRenderQueue) = 1

====
